---- MODULE Spec2Model ----
(***************************************************************************)
(* Model of src/eqation.py: solve_for_x(), the one-shot pipeline            *)
(*   read text -> normalise to "expression = 0" -> symbolic solve ->        *)
(*   (conditionally) numerical root finding -> closing banner.              *)
(*                                                                          *)
(* Texts are sequences of one-character strings over Chars.  An expression  *)
(* is a linear form: a set of <<name, coefficient>> pairs with non-zero     *)
(* coefficients, the name <<>> standing for the constant term.              *)
(* sympy.solveset, sympy.lambdify and scipy's fsolve are external: each     *)
(* either returns one of its possible results or raises.                    *)
(***************************************************************************)
EXTENDS Integers, Sequences, FiniteSets

VARIABLES
    pc,                     \* position in solve_for_x
    raw_input,              \* what input() returned, before .strip()
    equation_str,           \* line 27
    equation_expr,          \* line 37 / 53 / 58 / 88
    symbolic_solutions,     \* line 35 / 62
    numerical_solution_val, \* line 36 / 117
    rule,                   \* which branch of line 46 ran
    fsolve_ret,             \* line 110: what fsolve returned
    residual,               \* line 115: numeric_func(solution_val)
    raised,                 \* exceptions raised so far: <<stage, class>>
    calls,                  \* number of calls of each external routine
    out                     \* the reports printed so far

vars == <<pc, raw_input, equation_str, equation_expr, symbolic_solutions,
          numerical_solution_val, rule, fsolve_ret, residual, raised, calls,
          out>>

----------------------------------------------------------------------------
(* Bounds *)

MaxLen == 4

MaxResidual == 2

\* length of the input texts of the runs checked for termination
MaxFairLen == 3

----------------------------------------------------------------------------
(* Texts *)

Chars == {"x", "y", "1", "-", "=", " "}

Letters == {"x", "y"}

Digits == {"1"}

Texts == UNION {[1..n -> Chars] : n \in 0..MaxLen}

Abs(n) == IF n < 0 THEN -n ELSE n

\* strip() left out
strip_none(s) == s

RECURSIVE lstrip(_)
lstrip(s) == IF s # <<>> /\ Head(s) = " " THEN lstrip(Tail(s)) ELSE s

RECURSIVE rstrip(_)
rstrip(s) ==
    IF s # <<>> /\ s[Len(s)] = " " THEN rstrip(SubSeq(s, 1, Len(s) - 1)) ELSE s

\* str.strip()
strip(s) == rstrip(lstrip(s))

\* sub in s, for Python strings
Contains(s, sub) ==
    \E i \in 0..(Len(s) - Len(sub)) : SubSeq(s, i + 1, i + Len(sub)) = sub

\* s.split('=', 1) on a text that contains '=': the parts around the first '='
split(s) ==
    LET i == CHOOSE k \in 1..Len(s) :
                 s[k] = "=" /\ \A j \in 1..(k - 1) : s[j] # "="
    IN  <<SubSeq(s, 1, i - 1), SubSeq(s, i + 1, Len(s))>>

\* s.replace('==', '-'): leftmost, non-overlapping occurrences
RECURSIVE replace(_)
replace(s) ==
    IF Len(s) < 2 THEN s
    ELSE IF s[1] = "=" /\ s[2] = "=" THEN <<"-">> \o replace(SubSeq(s, 3, Len(s)))
    ELSE <<Head(s)>> \o replace(Tail(s))

----------------------------------------------------------------------------
(* Expressions *)

NoExpr == [ok |-> FALSE, terms |-> {}]

Expr(terms) == [ok |-> TRUE, terms |-> terms]

Names(t) == {p[1] : p \in t}

Coef(t, n) == IF n \in Names(t) THEN (CHOOSE p \in t : p[1] = n)[2] ELSE 0

Add(a, b) ==
    {p \in {<<n, Coef(a, n) + Coef(b, n)>> : n \in Names(a) \cup Names(b)} :
        p[2] # 0}

Scale(k, a) == {<<p[1], k * p[2]>> : p \in a}

\* lhs - rhs
Sub(a, b) == Add(a, Scale(-1, b))

FreeVars(e) == Names(e.terms) \ {<<>>}

----------------------------------------------------------------------------
(* sympy.sympify(text, locals={'x': x, ...}) on the texts of the model *)

RECURSIVE RunLen(_, _)
RunLen(s, allowed) ==
    IF s # <<>> /\ Head(s) \in allowed THEN 1 + RunLen(Tail(s), allowed) ELSE 0

Token(kind, text) == [kind |-> kind, text |-> text]

\* Python's tokenizer: blanks separate, an identifier is a letter followed by
\* letters and digits, a number is a run of digits, anything else an operator.
RECURSIVE Tokens(_)
Tokens(s) ==
    IF s = <<>> THEN <<>>
    ELSE IF Head(s) = " " THEN Tokens(Tail(s))
    ELSE IF Head(s) \in Letters THEN
        LET n == RunLen(s, Letters \cup Digits)
        IN  <<Token("NAME", SubSeq(s, 1, n))>> \o Tokens(SubSeq(s, n + 1, Len(s)))
    ELSE IF Head(s) \in Digits THEN
        LET n == RunLen(s, Digits)
        IN  <<Token("NUMBER", SubSeq(s, 1, n))>> \o Tokens(SubSeq(s, n + 1, Len(s)))
    ELSE <<Token("OP", <<Head(s)>>)>> \o Tokens(Tail(s))

RECURSIVE NumVal(_)
NumVal(d) == IF d = <<>> THEN 0 ELSE 10 * NumVal(SubSeq(d, 1, Len(d) - 1)) + 1

\* The value of an operand.  'x' is bound by locals; every other identifier
\* becomes a symbol of its own name (sympy's auto_symbol transformation).
Atom(tok) ==
    IF tok.kind = "NUMBER" THEN
        IF NumVal(tok.text) = 0 THEN {} ELSE {<<(<<>>), NumVal(tok.text)>>}
    ELSE {<<tok.text, 1>>}

\* Evaluation of the token list as a Python expression: operands separated by
\* '-', any number of unary '-' before an operand.  sign is the sign the next
\* operand gets, afterAtom whether the previous token was an operand.
RECURSIVE Eval(_, _, _, _)
Eval(ts, sign, afterAtom, acc) ==
    IF ts = <<>> THEN (IF afterAtom THEN Expr(acc) ELSE NoExpr)
    ELSE LET tok == Head(ts) IN
        IF tok.kind = "OP" THEN
            IF tok.text = <<"-">>
            THEN Eval(Tail(ts), IF afterAtom THEN -1 ELSE -sign, FALSE, acc)
            ELSE NoExpr
        ELSE IF afterAtom THEN NoExpr
        ELSE Eval(Tail(ts), 1, TRUE, Add(acc, Scale(sign, Atom(tok))))

\* a parser that admits the unknown as its only identifier
sympify_only_x(s) ==
    IF \A i \in 1..Len(Tokens(s)) :
           Tokens(s)[i].kind = "NAME" => Tokens(s)[i].text = <<"x">>
    THEN Eval(Tokens(s), 1, FALSE, {})
    ELSE NoExpr

\* The parsed expression, or NoExpr where sympify raises SympifyError.
sympify(s) == Eval(Tokens(s), 1, FALSE, {})

\* The identifiers a text uses.
Identifiers(s) ==
    {Tokens(s)[i].text : i \in {j \in 1..Len(Tokens(s)) : Tokens(s)[j].kind = "NAME"}}

----------------------------------------------------------------------------
(* Values of the run *)

None == <<>>

Some(v) == <<v>>

\* What sympy.solveset can return, by the attributes solve_for_x reads:
\* is_FiniteSet, bool(), isinstance(ConditionSet), is_EmptySet.
SetValue(cls, finite, truth, empty) ==
    [cls |-> cls, is_FiniteSet |-> finite, truth |-> truth, is_EmptySet |-> empty]

NoSolutions == SetValue("None", FALSE, FALSE, FALSE)

SolveSets ==
    { SetValue("FiniteSet", TRUE, TRUE, FALSE),
      SetValue("EmptySet", TRUE, FALSE, TRUE),
      SetValue("ConditionSet", FALSE, TRUE, FALSE),
      SetValue("Interval", FALSE, TRUE, FALSE) }

\* The exception classes the handler of line 85 names
ParseClasses == {"SympifyError", "TypeError", "SyntaxError"}

\* Exception classes solveset can raise, and those lambdify, fsolve and the
\* lambdified function can raise.  ValueError stands for every subclass of
\* Exception that no handler names (NotImplementedError, ZeroDivisionError...).
SolveExceptions == {"TypeError", "ValueError"}

NumericExceptions == {"NameError", "TypeError", "ValueError"}

\* fsolve's ier flag, estimates and messages; residuals in units of 1e-8.
IerCodes == {1, 2, 5}

Roots == {1, 2}

Msgs == {"maxfev reached", "not making good progress"}

Residuals == (-MaxResidual)..MaxResidual

initial_guess == 1

\* np.isclose defaults: atol = 1e-8 (1 unit), rtol = 1e-5 (1 / RtolInv)
Atol == 1

RtolInv == 100000

\* np.isclose(a, b): |a - b| <= atol + rtol * |b|
isclose(a, b) == Abs(a - b) * RtolInv <= Atol * RtolInv + Abs(b)

Report(tag, val, res, msg) == [tag |-> tag, val |-> val, res |-> res, msg |-> msg]

Line(tag) == Report(tag, None, None, "")

----------------------------------------------------------------------------
(* The decisions of solve_for_x *)

\* the '==' test left out
UsesSplit_any_eq(s) == Contains(s, <<"=">>)

\* line 46: '=' in equation_str and '==' not in equation_str
UsesSplit(s) == Contains(s, <<"=">>) /\ ~Contains(s, <<"=", "=">>)

\* lines 46-58: the branch taken, the expression built (NoExpr where a
\* sympify call raised) and the number of sympify calls made.
Normalized(s) ==
    IF UsesSplit(s) THEN
        LET lhs == sympify(split(s)[1])
            rhs == sympify(split(s)[2])
        IN  IF ~lhs.ok THEN [rule |-> "split", expr |-> NoExpr, sympify |-> 1]
            ELSE IF ~rhs.ok THEN [rule |-> "split", expr |-> NoExpr, sympify |-> 2]
            ELSE [rule |-> "split", expr |-> Expr(Sub(lhs.terms, rhs.terms)),
                  sympify |-> 2]
    ELSE [rule |-> "whole", expr |-> sympify(replace(s)), sympify |-> 1]

\* the emptiness test of line 64 left out
Classify_no_truth(sol) ==
    IF sol.is_FiniteSet THEN "Finite"
    ELSE IF sol.cls = "ConditionSet" THEN "Conditional"
    ELSE IF sol.is_EmptySet THEN "Empty"
    ELSE "NonFinite"

\* lines 64-82: the report chosen for what solveset returned
Classify(sol) ==
    IF sol.is_FiniteSet /\ sol.truth THEN "Finite"
    ELSE IF sol.cls = "ConditionSet" THEN "Conditional"
    ELSE IF sol.is_EmptySet THEN "Empty"
    ELSE "NonFinite"

\* lines 85-91: the handlers of the first try block, for an exception raised
\* anywhere in lines 46-82
SymbolicHandler(exc, expr) ==
    IF exc \in ParseClasses
    THEN [caught |-> TRUE, report |-> "ParseError", expr |-> NoExpr]
    ELSE [caught |-> TRUE, report |-> "SymbolicError", expr |-> expr]

\* the fallback run whenever an expression exists
NumericTrigger_always(expr, sol) == expr.ok

\* the test for an expression left out
NumericTrigger_no_expr_test(expr, sol) == ~sol.truth \/ ~sol.is_FiniteSet

\* line 96
NumericTrigger(expr, sol) == expr.ok /\ (~sol.truth \/ ~sol.is_FiniteSet)

\* the catch-all handler of line 129 left out
NumericHandler_no_catch_all(exc) ==
    IF exc = "NameError" THEN [caught |-> TRUE, report |-> "SciPyMissing"]
    ELSE IF exc = "TypeError" THEN [caught |-> TRUE, report |-> "EvaluationError"]
    ELSE [caught |-> FALSE, report |-> "Traceback"]

\* lines 124-130: the handlers of the second try block
NumericHandler(exc) ==
    IF exc = "NameError" THEN [caught |-> TRUE, report |-> "SciPyMissing"]
    ELSE IF exc = "TypeError" THEN [caught |-> TRUE, report |-> "EvaluationError"]
    ELSE [caught |-> TRUE, report |-> "NumericError"]

\* lines 112-122: the report for what fsolve returned, given the residual
\* numeric_func(solution_val)
Verdict(ier, val, res, msg) ==
    IF ier = 1 THEN
        IF isclose(res, 0) THEN Report("NumericRoot", Some(val), None, "")
        ELSE Report("ResidualMismatch", Some(val), Some(res), "")
    ELSE Report("NonConvergence", None, None, msg)

\* the root accepted on the convergence flag alone
Accepted_on_flag(ier, val, res) == IF ier = 1 THEN Some(val) ELSE None

\* line 117: the value numerical_solution_val is left with
Accepted(ier, val, res) == IF ier = 1 /\ isclose(res, 0) THEN Some(val) ELSE None

----------------------------------------------------------------------------
(* The run *)

Bump(f) == [calls EXCEPT ![f] = @ + 1]

\* lines 11-37: the usage banner is printed, then input() returns some text
Init ==
    /\ raw_input \in Texts
    /\ pc = "read"
    /\ equation_str = <<>>
    /\ equation_expr = NoExpr
    /\ symbolic_solutions = NoSolutions
    /\ numerical_solution_val = None
    /\ rule = "none"
    /\ fsolve_ret = None
    /\ residual = None
    /\ raised = <<>>
    /\ calls = [normalize |-> 0, sympify |-> 0, solveset |-> 0,
                lambdify |-> 0, fsolve |-> 0]
    /\ out = <<Line("Usage")>>

\* lines 27-31
ReadInput ==
    /\ pc = "read"
    /\ equation_str' = strip(raw_input)
    /\ IF equation_str' = <<>>
       THEN /\ out' = Append(out, Line("NoEquation"))
            /\ pc' = "returned"
       ELSE /\ out' = out
            /\ pc' = "normalize"
    /\ UNCHANGED <<raw_input, equation_expr, symbolic_solutions,
                   numerical_solution_val, rule, fsolve_ret, residual, raised, calls>>

\* lines 40-58, and lines 85-88 when sympify raises
Normalize ==
    /\ pc = "normalize"
    /\ LET n == Normalized(equation_str)
           h == SymbolicHandler("SympifyError", equation_expr)
       IN  /\ rule' = n.rule
           /\ calls' = [calls EXCEPT !.normalize = @ + 1, !.sympify = @ + n.sympify]
           /\ IF n.expr.ok
              THEN /\ equation_expr' = n.expr
                   /\ out' = Append(out, Line("SymbolicHeader"))
                   /\ raised' = raised
                   /\ pc' = "solve"
              ELSE /\ equation_expr' = h.expr
                   /\ out' = out \o <<Line("SymbolicHeader"), Line(h.report)>>
                   /\ raised' = Append(raised, <<"sympify", "SympifyError">>)
                   /\ pc' = IF h.caught THEN "gate" ELSE "crashed"
    /\ UNCHANGED <<raw_input, equation_str, symbolic_solutions,
                   numerical_solution_val, fsolve_ret, residual>>

\* line 62 returns: lines 64-82
SolveReturns ==
    /\ pc = "solve"
    /\ \E sol \in SolveSets :
        /\ symbolic_solutions' = sol
        /\ out' = Append(out, Line(Classify(sol)))
    /\ calls' = Bump("solveset")
    /\ pc' = "gate"
    /\ UNCHANGED <<raw_input, equation_str, equation_expr,
                   numerical_solution_val, rule, fsolve_ret, residual, raised>>

\* line 62 raises: lines 85-91
SolveRaises ==
    /\ pc = "solve"
    /\ \E exc \in SolveExceptions :
        LET h == SymbolicHandler(exc, equation_expr)
        IN  /\ equation_expr' = h.expr
            /\ out' = Append(out, Line(h.report))
            /\ raised' = Append(raised, <<"solveset", exc>>)
            /\ pc' = IF h.caught THEN "gate" ELSE "crashed"
    /\ calls' = Bump("solveset")
    /\ UNCHANGED <<raw_input, equation_str, symbolic_solutions,
                   numerical_solution_val, rule, fsolve_ret, residual>>

\* lines 96-97
NumericGate ==
    /\ pc = "gate"
    /\ IF NumericTrigger(equation_expr, symbolic_solutions)
       THEN /\ out' = Append(out, Line("NumericHeader"))
            /\ pc' = "lambdify"
       ELSE /\ out' = out
            /\ pc' = "finish"
    /\ UNCHANGED <<raw_input, equation_str, equation_expr, symbolic_solutions,
                   numerical_solution_val, rule, fsolve_ret, residual, raised, calls>>

\* An exception raised in lines 101-122 at the given call: lines 124-130
NumericRaises(call) ==
    \E exc \in NumericExceptions :
        LET h == NumericHandler(exc)
        IN  /\ out' = Append(out, Line(h.report))
            /\ raised' = Append(raised, <<call, exc>>)
            /\ pc' = IF h.caught THEN "finish" ELSE "crashed"

\* lines 101-107
Lambdify ==
    /\ pc = "lambdify"
    /\ calls' = Bump("lambdify")
    /\ \/ /\ out' = Append(out, Report("Guess", Some(initial_guess), None, ""))
          /\ raised' = raised
          /\ pc' = "fsolve"
       \/ NumericRaises("lambdify")
    /\ UNCHANGED <<raw_input, equation_str, equation_expr, symbolic_solutions,
                   numerical_solution_val, rule, fsolve_ret, residual>>

\* line 110 returns: lines 112-122.  numeric_func(solution_val) is evaluated
\* (line 115) only when ier = 1; fsolve has evaluated it at that estimate
\* before, so it does not raise.
FsolveReturns ==
    /\ pc = "fsolve"
    /\ calls' = Bump("fsolve")
    /\ \E ier \in IerCodes, val \in Roots, msg \in Msgs :
        \E res \in IF ier = 1 THEN Residuals ELSE {0} :
            /\ fsolve_ret' = Some([ier |-> ier, x |-> val, msg |-> msg])
            /\ residual' = IF ier = 1 THEN Some(res) ELSE None
            /\ numerical_solution_val' = Accepted(ier, val, res)
            /\ out' = Append(out, Verdict(ier, val, res, msg))
    /\ pc' = "finish"
    /\ UNCHANGED <<raw_input, equation_str, equation_expr, symbolic_solutions,
                   rule, raised>>

\* line 110 raises (numeric_func raising inside fsolve included)
FsolveRaises ==
    /\ pc = "fsolve"
    /\ calls' = Bump("fsolve")
    /\ NumericRaises("fsolve")
    /\ UNCHANGED <<raw_input, equation_str, equation_expr, symbolic_solutions,
                   numerical_solution_val, rule, fsolve_ret, residual>>

\* lines 132-134
Finish ==
    /\ pc = "finish"
    /\ out' = Append(out, Line("Finished"))
    /\ pc' = "done"
    /\ UNCHANGED <<raw_input, equation_str, equation_expr, symbolic_solutions,
                   numerical_solution_val, rule, fsolve_ret, residual, raised, calls>>

Next ==
    \/ ReadInput
    \/ Normalize
    \/ SolveReturns
    \/ SolveRaises
    \/ NumericGate
    \/ Lambdify
    \/ FsolveReturns
    \/ FsolveRaises
    \/ Finish

Spec == Init /\ [][Next]_vars

\* The run is sequential and every call returns or raises: a step that can be
\* taken is taken.
InitFair == Init /\ Len(raw_input) <= MaxFairLen

FairSpec == InitFair /\ [][Next]_vars /\ WF_vars(Next)


----------------------------------------------------------------------------
(* Vocabulary of the properties *)

Reported(tag) == \E i \in 1..Len(out) : out[i].tag = tag

Count(tags) == Cardinality({i \in 1..Len(out) : out[i].tag \in tags})

RaisedBy(call) == \E i \in 1..Len(raised) : raised[i][1] = call

IsBlank(s) == \A i \in 1..Len(s) : s[i] = " "

\* the numerical block (lines 97-130) has been entered
NumericInvoked == pc \in {"lambdify", "fsolve"} \/ calls.lambdify > 0

SymbolicReports == {"Finite", "Conditional", "Empty", "NonFinite"}

NumericOutcomes == {"NumericRoot", "ResidualMismatch", "NonConvergence"}

NumericErrors == {"SciPyMissing", "EvaluationError", "NumericError"}

AfterGate == pc \in {"lambdify", "fsolve", "finish", "done"}

----------------------------------------------------------------------------
C2_SymbolicFaultIsolated ==
    (pc = "done" /\ rule # "none" /\ ~RaisedBy("sympify") /\ RaisedBy("solveset"))
        => calls.lambdify = 1

\* C3: after a parse error in normalization there is no expression, solveset
\* is never called and the numerical stage is never entered.
C3_ParseErrorSkipsAll ==
    RaisedBy("sympify") =>
        /\ ~equation_expr.ok
        /\ calls.solveset = 0
        /\ ~NumericInvoked
        /\ calls.fsolve = 0
        /\ pc \in {"gate", "finish", "done"}

\* the left side parsed, the right side did not, and the run is over
C3_Witness ==
    /\ pc = "done"
    /\ RaisedBy("sympify")
    /\ rule = "split"
    /\ calls.sympify = 2

\* C4: for an empty or all-blank input the run halts with the empty-input
\* report: no parse, no symbolic solve, no numerical solve.
C4_EmptyInputHalts ==
    IsBlank(raw_input) =>
        /\ pc \in {"read", "returned"}
        /\ calls.normalize = 0 /\ calls.sympify = 0 /\ calls.solveset = 0
        /\ calls.lambdify = 0 /\ calls.fsolve = 0
        /\ pc = "returned" => out = <<Line("Usage"), Line("NoEquation")>>

C4_Witness ==
    /\ pc = "returned"
    /\ Len(raw_input) > 0
    /\ Reported("NoEquation")

\* C5 (as claimed): whenever fsolve has been called, exactly one of the three
\* outcomes (root accepted, residual mismatch, non-convergence) is reported.
C5_OneOutcomePerCall ==
    (calls.fsolve = 1 /\ pc \in {"finish", "done"}) => Count(NumericOutcomes) = 1

\* C5 (amended): whenever fsolve has returned, exactly one of the three
\* outcomes is reported: a root is accepted only with ier = 1 and a residual
\* within the tolerance of zero, and is then the reported estimate; with
\* ier = 1 and a residual outside the tolerance nothing is accepted and the
\* estimate and the residual are reported; with ier # 1 nothing is accepted
\* and fsolve's message is reported.  When the fsolve call raises instead,
\* none of the three is reported, nothing is accepted and one error is reported.
C5_OutcomeOnReturn ==
    /\ fsolve_ret # None =>
        LET r == fsolve_ret[1]
            last == out[IF pc = "done" THEN Len(out) - 1 ELSE Len(out)]
            close == residual # None /\ Abs(residual[1]) <= Atol
        IN  /\ Count(NumericOutcomes) = 1
            /\ last.tag \in NumericOutcomes
            /\ Count(NumericErrors) = 0
            /\ numerical_solution_val # None => r.ier = 1 /\ close
            /\ (r.ier = 1 /\ close) =>
                  /\ last = Report("NumericRoot", Some(r.x), None, "")
                  /\ numerical_solution_val = Some(r.x)
            /\ (r.ier = 1 /\ ~close) =>
                  /\ last = Report("ResidualMismatch", Some(r.x), residual, "")
                  /\ residual # None
                  /\ numerical_solution_val = None
            /\ r.ier # 1 =>
                  /\ last = Report("NonConvergence", None, None, r.msg)
                  /\ numerical_solution_val = None
    /\ (calls.fsolve = 1 /\ fsolve_ret = None) =>
        /\ RaisedBy("fsolve")
        /\ Count(NumericOutcomes) = 0
        /\ Count(NumericErrors) = 1
        /\ numerical_solution_val = None

\* converged by the flag, residual just outside the tolerance: not accepted
C5_Witness ==
    /\ pc = "done"
    /\ fsolve_ret # None
    /\ fsolve_ret[1].ier = 1
    /\ residual = Some(Atol + 1)
    /\ Reported("ResidualMismatch")
    /\ numerical_solution_val = None

WellFormed(s) ==
    LET ts == Tokens(s)
    IN  /\ Len(ts) > 0
        /\ ts[Len(ts)].kind # "OP"
        /\ \A i \in 1..Len(ts) : ts[i].kind = "OP" => ts[i].text = <<"-">>
        /\ \A i \in 1..(Len(ts) - 1) : ts[i].kind = "OP" \/ ts[i + 1].kind = "OP"

EqPositions(s) == {i \in 1..Len(s) : s[i] = "="}

HasDoubleEq(s) == \E i \in EqPositions(s) : i + 1 \in EqPositions(s)

FirstEq(s) == CHOOSE i \in EqPositions(s) : \A j \in EqPositions(s) : i <= j

Left(s) == SubSeq(s, 1, FirstEq(s) - 1)

Right(s) == SubSeq(s, FirstEq(s) + 1, Len(s))

\* normalization is over and solveset has not touched the expression yet
JustNormalized == calls.normalize = 1 /\ calls.solveset = 0

RefRule(s) ==
    IF Cardinality(EqPositions(s)) = 1 /\ ~HasDoubleEq(s) THEN "split" ELSE "whole"

\* ... and the "equals zero" form it yields (NoExpr for a parse error)
RefForm(s) ==
    IF RefRule(s) = "split" THEN
        IF sympify(Left(s)).ok /\ sympify(Right(s)).ok
        THEN Expr(Sub(sympify(Left(s)).terms, sympify(Right(s)).terms))
        ELSE NoExpr
    ELSE sympify(replace(s))

====
